---------------------------- MODULE Spec2Model ----------------------------
(***************************************************************************)
(* A model of batchmail.py: the metadata extractor (get_meta_data), the    *)
(* sorter (sort_meta_data_list), the grouper (meta_data2groups) and the    *)
(* subject formatter (groups2subjects, sizeof_fmt).                        *)
(*                                                                         *)
(* Python values are modelled as tagged records [t |-> type, v |-> value]  *)
(* so that isinstance(x, dict) is a test of the tag.  A dict is a function *)
(* from its keys (strings) to tagged values.                               *)
(***************************************************************************)
EXTENDS Integers, Sequences, FiniteSets, TLC

VARIABLES
    pc,             \* position of the driver: which call runs next / has returned
    have_magic,     \* "import magic" succeeds
    have_PIL,       \* "import PIL, PIL.Image, PIL.ExifTags" succeeds
    file,           \* get_meta_data: what the filesystem and the codec answer for file_name
    thumbnail_size, \* get_meta_data: the thumbnail bound (None or an int)
    meta,           \* get_meta_data: the returned record (None when it raised)
    exc,            \* the exception that left the running call (NoExc when none)
    metas,          \* the list of metadata records handed to the sorter / grouper
    ordered_by,     \* sort_meta_data_list: ordered_by.split('.')
    reverse,        \* sort_meta_data_list: reverse
    sorted,         \* sort_meta_data_list: the returned list
    max_size,       \* meta_data2groups: max_size
    grps,           \* the caller's binding of meta_data2groups' result: <<>> until it returns
    idx,            \* meta_data2groups: number of records the for loop has consumed
    groups,         \* meta_data2groups: local `groups`, then the returned value
    total_size,     \* meta_data2groups: local `total_size`
    title,          \* groups2subjects: title
    total,          \* groups2subjects: local `total`
    gi,             \* groups2subjects: number of groups the for loop has consumed
    progress_tup,   \* groups2subjects: local `progress_tup`
    subjects        \* groups2subjects: local `subjects`, then the returned value

vars == <<pc, have_magic, have_PIL, file, thumbnail_size, meta, exc, metas,
          ordered_by, reverse, sorted, max_size, grps, idx, groups, total_size,
          title, total, gi, progress_tup, subjects>>

-----------------------------------------------------------------------------
(* Bounds of the model *)

\* longest list of files / records
MaxLen == 3
\* largest file size, in units
MaxFileSize == 3
\* largest max_size, in units
MaxMaxSize == 4
\* largest image side, in pixels
MaxSide == 2

-----------------------------------------------------------------------------
(* Python values *)

PyNone == [t |-> "none", v |-> 0]
PyInt(n) == [t |-> "int", v |-> n]
PyStr(s) == [t |-> "str", v |-> s]
PyTuple(s) == [t |-> "tuple", v |-> s]
PyBytes(b) == [t |-> "bytes", v |-> b]
PyDict(f) == [t |-> "dict", v |-> f]

\* isinstance(d, dict) and k in d
Has(d, k) == d.t = "dict" /\ k \in DOMAIN d.v
\* d[k]
Get(d, k) == d.v[k]
\* d[k] = val
Put(d, k, val) ==
    PyDict([x \in DOMAIN d.v \cup {k} |-> IF x = k THEN val ELSE d.v[x]])
\* del d[k]
Del(d, k) == PyDict([x \in DOMAIN d.v \ {k} |-> d.v[x]])

Last(s) == s[Len(s)]
Max(a, b) == IF a >= b THEN a ELSE b

RECURSIVE SumSeq(_)
SumSeq(s) == IF s = <<>> THEN 0 ELSE Head(s) + SumSeq(Tail(s))

RECURSIVE Flatten(_)
Flatten(ss) == IF ss = <<>> THEN <<>> ELSE Head(ss) \o Flatten(Tail(ss))

-----------------------------------------------------------------------------
(* get_meta_data *)

\* os.path.normpath on a relative path given as its components: "." is dropped
RECURSIVE normpath(_)
normpath(p) ==
    IF p = <<>> THEN <<>>
    ELSE IF Head(p) = "." THEN normpath(Tail(p))
    ELSE <<Head(p)>> \o normpath(Tail(p))

\* hashlib.new(method, data).hexdigest(), kept symbolic
hash_data(data, method) == PyStr(<<method, data>>)

\* magic.from_buffer(data), None when the import fails
file_magic_from_buffer(f, magic_ok) ==
    IF magic_ok THEN PyStr(f.magic) ELSE PyNone

\* PIL.ExifTags.TAGS restricted to the two tags the code reads
TAGS == [k \in {272, 36867} |-> IF k = 272 THEN "Model" ELSE "DateTimeOriginal"]

\* {TAGS[k]: v for k, v in im._getexif().items() if k in TAGS}
ExifByName(raw) ==
    [n \in {TAGS[k] : k \in DOMAIN raw \cap DOMAIN TAGS} |->
        raw[CHOOSE k \in DOMAIN raw \cap DOMAIN TAGS : TAGS[k] = n]]

\* lines 265-297: stat, read (meta['file']['data'], temporary), type sniffing, hashes
BaseMeta(f, magic_ok) ==
    PyDict([
        file |-> PyDict([
            data |-> PyBytes(f.data),
            name |-> PyStr(Last(normpath(f.path))),
            path |-> PyStr(normpath(f.path)),
            size |-> PyInt(f.size),
            date |-> PyDict([modified |-> PyInt(f.mtime), created |-> PyInt(f.ctime)]),
            hash |-> PyDict([md5 |-> hash_data(f.data, "md5"),
                             sha256 |-> hash_data(f.data, "sha256")])]),
        type_description |-> file_magic_from_buffer(f, magic_ok)])

\* lines 305-309: meta['image'] = {format, size, mode}
ImageInfo(m, f) ==
    Put(m, "image", PyDict([format |-> PyStr(f.format),
                            size |-> PyTuple(f.dims),
                            mode |-> PyStr(f.mode)]))

\* lines 318-321: copy DateTimeOriginal and Model out of the EXIF tags
ExifInfo(m, exif) ==
    LET m1 == IF "DateTimeOriginal" \in DOMAIN exif
              THEN Put(m, "image", Put(Get(m, "image"), "date", exif["DateTimeOriginal"]))
              ELSE m
    IN  IF "Model" \in DOMAIN exif
        THEN Put(m1, "image", Put(Get(m1, "image"), "device", exif["Model"]))
        ELSE m1

\* lines 325-331: the box handed to im.thumbnail (the float products floored)
resize_size(dims, ts) ==
    LET max_w_h == Max(dims[1], dims[2])
    IN  IF max_w_h <= ts THEN dims
        ELSE <<(dims[1] * ts) \div max_w_h, (dims[2] * ts) \div max_w_h>>

\* lines 332-335: meta['image']['thumbnail'] = the JPEG bytes
ThumbInfo(m, f, ts) ==
    Put(m, "image", Put(Get(m, "image"), "thumbnail",
        PyBytes(<<"JPEG", f.data, resize_size(f.dims, ts)>>)))

\* line 324: thumbnail_size is not None and thumbnail_size > 0
WantThumb(ts) == ts.t = "int" /\ ts.v > 0

Returned(m) == [exc |-> "", meta |-> m]
Raised(e) == [exc |-> e, meta |-> PyNone]

\* lines 299-339: the image block.  IOError inside the inner try is swallowed
\* and leaves meta as it stands; any other exception leaves get_meta_data.
ImageBlock(m, f, ts, pil_ok) ==
    IF ~pil_ok THEN Returned(m)
    ELSE IF f.open = "IOError" THEN Returned(m)
    ELSE IF f.open # "ok" THEN Raised(f.open)
    ELSE
      LET m1 == ImageInfo(m, f)
          exifStep ==
            IF ~f.has_exif THEN Returned(m1)
            ELSE IF f.getexif # "ok" THEN Raised(f.getexif)
            ELSE Returned(ExifInfo(m1, ExifByName(f.exif)))
      IN  IF exifStep.exc = "IOError" THEN Returned(m1)
          ELSE IF exifStep.exc # "" THEN exifStep
          ELSE IF ~WantThumb(ts) THEN exifStep
          ELSE IF f.save = "IOError" THEN exifStep
          ELSE IF f.save # "ok" THEN Raised(f.save)
          ELSE Returned(ThumbInfo(exifStep.meta, f, ts.v))

\* line 341: del meta['file']['data']
DropData(m) == Put(m, "file", Del(Get(m, "file"), "data"))

\* get_meta_data(file_name, thumbnail_size): the record, or the exception
get_meta_data(f, ts, magic_ok, pil_ok) ==
    IF f.stat # "ok" THEN Raised(f.stat)
    ELSE LET r == ImageBlock(BaseMeta(f, magic_ok), f, ts, pil_ok)
         IN  IF r.exc # "" THEN r ELSE Returned(DropData(r.meta))

\* files2meta_data_list(files, thumbnail_size): one record per file, in order
files2meta_data_list(files, ts, magic_ok, pil_ok) ==
    [i \in 1..Len(files) |-> get_meta_data(files[i], ts, magic_ok, pil_ok).meta]

-----------------------------------------------------------------------------
(* sort_meta_data_list *)

\* the strings the model compares, in Python's (lexicographic) order
StrOrder == <<"2019:05:06 07:08:09", "2020:01:02 15:04:05">>
StrRank(s) == CHOOSE i \in 1..Len(StrOrder) : StrOrder[i] = s

RECURSIVE SeqLess(_, _)
SeqLess(s, u) ==
    IF u = <<>> THEN FALSE
    ELSE IF s = <<>> THEN TRUE
    ELSE IF Head(s) # Head(u) THEN Head(s) < Head(u)
    ELSE SeqLess(Tail(s), Tail(u))

\* a < b on two values of one type: int, str or tuple of ints
PyLess(a, b) ==
    CASE a.t = "int" -> a.v < b.v
      [] a.t = "str" -> StrRank(a.v) < StrRank(b.v)
      [] a.t = "tuple" -> SeqLess(a.v, b.v)

\* lines 356-362
cmp(a, b) == IF PyLess(a, b) THEN -1 ELSE IF PyLess(b, a) THEN 1 ELSE 0

\* lines 364-373, the for loop over ordered_by.split('.') (path is the split)
RECURSIVE key_cmp_loop(_, _, _)
key_cmp_loop(a, b, path) ==
    IF path = <<>> THEN cmp(a, b)
    ELSE IF ~Has(a, Head(path)) THEN -1
    ELSE IF ~Has(b, Head(path)) THEN 1
    ELSE key_cmp_loop(Get(a, Head(path)), Get(b, Head(path)), Tail(path))

RECURSIVE key_cmp_missing_last(_, _, _)
key_cmp_missing_last(a, b, path) ==
    IF path = <<>> THEN cmp(a, b)
    ELSE IF ~Has(a, Head(path)) THEN 1
    ELSE IF ~Has(b, Head(path)) THEN -1
    ELSE key_cmp_missing_last(Get(a, Head(path)), Get(b, Head(path)), Tail(path))

\* lines 355-373
key_cmp(a, b, path) == key_cmp_loop(a, b, path)

\* functools.cmp_to_key: the only comparison list.sort makes is K(a) < K(b)
KeyLT(a, b, path) == key_cmp(a, b, path) < 0

Reverse(s) == [i \in 1..Len(s) |-> s[Len(s) + 1 - i]]

\* list.sort's count_run: the length of the run that starts the list,
\* ascending (no element less than its predecessor) or strictly descending
RECURSIVE run_end(_, _, _, _)
run_end(a, n, descending, path) ==
    IF n >= Len(a) THEN n
    ELSE IF KeyLT(a[n + 1], a[n], path) = descending
         THEN run_end(a, n + 1, descending, path)
         ELSE n

\* list.sort's binarysort: the slot of pivot in the sorted prefix a[l..r-1],
\* to the right of every element it is not less than
RECURSIVE bisect(_, _, _, _, _)
bisect(a, pivot, l, r, path) ==
    IF l >= r THEN l
    ELSE LET p == l + ((r - l) \div 2)
         IN  IF KeyLT(pivot, a[p], path)
             THEN bisect(a, pivot, l, p, path)
             ELSE bisect(a, pivot, p + 1, r, path)

RECURSIVE binarysort(_, _, _)
binarysort(a, start, path) ==
    IF start > Len(a) THEN a
    ELSE LET pivot == a[start]
             l == bisect(a, pivot, 1, start, path)
             moved == [i \in 1..Len(a) |->
                          IF i < l \/ i > start THEN a[i]
                          ELSE IF i = l THEN pivot
                          ELSE a[i - 1]]
         IN  binarysort(moved, start + 1, path)

\* list.sort on a list shorter than 64 (one run, extended by binary insertion)
sort_ascending(a, path) ==
    IF Len(a) < 2 THEN a
    ELSE LET descending == KeyLT(a[2], a[1], path)
             n == run_end(a, 2, descending, path)
             run == IF descending
                    THEN [i \in 1..Len(a) |-> IF i <= n THEN a[n + 1 - i] ELSE a[i]]
                    ELSE a
         IN  binarysort(run, n + 1, path)

\* list.sort(key=..., reverse=...): reverse=True sorts the reversed list and
\* reverses the result, which keeps equal elements in their input order
list_sort_plain_reverse(a, path, rev) ==
    IF rev THEN Reverse(sort_ascending(a, path)) ELSE sort_ascending(a, path)
list_sort(a, path, rev) ==
    IF rev THEN Reverse(sort_ascending(Reverse(a), path)) ELSE sort_ascending(a, path)

\* lines 347-376
sort_meta_data_list(ms, path, rev) == list_sort(ms, path, rev)

-----------------------------------------------------------------------------
(* meta_data2groups *)

\* x['file']['size'] and x['file']['name']
FileSize(x) == Get(Get(x, "file"), "size").v
FileName(x) == Get(Get(x, "file"), "name").v


\* line 385: groups = [[]]
InitGroupsTwo == <<<<>>, <<>>>>
InitGroups == <<<<>>>>

\* line 388: x['file']['size'] > max_size
TooBigNever(size, max) == FALSE
TooBig(size, max) == size > max

\* line 392: x['file']['size'] + total_size < max_size
FitsOrEqual(size, total_sz, max) == size + total_sz <= max
FitsOffByOne(size, total_sz, max) == size + total_sz + 1 < max
Fits(size, total_sz, max) == size + total_sz < max

\* line 394: groups[-1].append(x)
AppendToLast(gs, x) == [gs EXCEPT ![Len(gs)] = Append(@, x)]

\* line 398: groups.append([x])
NewGroupEmpty(gs, x) == Append(gs, <<>>)
NewGroup(gs, x) == Append(gs, <<x>>)

NoExc == [type |-> "", args |-> <<>>]
\* lines 389-390: the exception, with the arguments of its message
\* 'file "%s", size %d, exceed max_size %d\n'
TooBigError(x, max) ==
    [type |-> "Exception", args |-> <<FileName(x), FileSize(x), max>>]

-----------------------------------------------------------------------------
(* sizeof_fmt and groups2subjects *)

Digits == <<"0", "1", "2", "3", "4", "5", "6", "7", "8", "9">>

\* "%d" % n, n >= 0
RECURSIVE IntStr(_)
IntStr(n) ==
    IF n < 10 THEN Digits[n + 1]
    ELSE IntStr(n \div 10) \o Digits[(n % 10) + 1]

\* "%3.1f" % (n / d): n / d is exact in binary floating point (d is a power
\* of 1024), and the conversion rounds the exact value to the nearest tenth,
\* ties to even
Fmt1f(n, d) ==
    LET q == (n * 10) \div d
        r == (n * 10) % d
        tenths == IF 2 * r > d THEN q + 1
                  ELSE IF 2 * r = d THEN q + (q % 2)
                  ELSE q
    IN  IntStr(tenths \div 10) \o "." \o Digits[(tenths % 10) + 1]

\* line 58
Units == <<"", "Ki", "Mi", "Gi", "Ti", "Pi", "Ei", "Zi">>

\* lines 58-62: the for loop, num being n / d at unit k (n >= 0)
RECURSIVE sizeof_fmt_loop(_, _, _)
sizeof_fmt_loop(n, d, k) ==
    IF k > Len(Units) THEN Fmt1f(n, d) \o "Yi" \o "B"
    ELSE IF n < 1024 * d
         THEN (IF Units[k] # "" THEN Fmt1f(n, d) ELSE IntStr(n)) \o Units[k] \o "B"
         ELSE sizeof_fmt_loop(n, d * 1024, k + 1)

\* lines 56-62
sizeof_fmt_bytes(num) == IntStr(num) \o "B"
sizeof_fmt(num) == sizeof_fmt_loop(num, 1, 1)

\* line 560: subject_fmt.format(...) with the default
\* '{title} #{num} ({progress}/{total}) {size}', progress being '%d-%d' % tup
subject_fmt(ttl, num, tup, tot, size) ==
    ttl \o " #" \o IntStr(num) \o " (" \o IntStr(tup[1]) \o "-" \o IntStr(tup[2])
        \o "/" \o IntStr(tot) \o ") " \o size

\* line 583: progress_tup = (progress_tup[1]+1, progress_tup[1]+len(grp))
NextProgressReset(tup, n) == <<1, n>>
NextProgress(tup, n) == <<tup[2] + 1, tup[2] + n>>

\* line 584: sum(x['file']['size'] for x in grp)
att_size(grp) == SumSeq([i \in 1..Len(grp) |-> FileSize(grp[i])])

\* line 578: sum(len(x) for x in groups)
TotalLen(gs) == SumSeq([i \in 1..Len(gs) |-> Len(gs[i])])

-----------------------------------------------------------------------------
(* The inputs the model draws: files on disk and call arguments *)

MiB == 1024 * 1024

DateStr == [d \in 1..2 |-> PyStr(StrOrder[d])]

\* what im._getexif() can hold: tag id -> value (37510, UserComment, is a tag
\* the code does not read)
ExifChoices ==
    { [k \in {37510} |-> PyStr("c")],
      [k \in {272, 37510} |-> IF k = 272 THEN PyStr("X100") ELSE PyStr("c")],
      [k \in {36867, 37510} |-> IF k = 36867 THEN DateStr[1] ELSE PyStr("c")],
      [k \in {272, 36867} |-> IF k = 272 THEN PyStr("X100") ELSE DateStr[2]] }

\* a file as the filesystem and the image codec answer for it
File(path, stat, size, open, dims, has_exif, getexif, exif, save) ==
    [path |-> path, stat |-> stat, size |-> size, mtime |-> 2, ctime |-> 1,
     data |-> 7, magic |-> "data", open |-> open, format |-> "JPEG",
     dims |-> dims, mode |-> "RGB", has_exif |-> has_exif, getexif |-> getexif,
     exif |-> exif, save |-> save]

Outcomes == {"ok", "IOError", "Error"}

\* the files of the metadata specification: every outcome of every step
MetaFiles ==
    { File(path, stat, 1, open, dims, has_exif, getexif, exif, save) :
        path \in {<<".", "d", "a.jpg">>},
        stat \in {"ok", "OSError"},
        open \in Outcomes,
        dims \in {<<1, 1>>, <<MaxSide, 1>>},
        has_exif \in BOOLEAN,
        getexif \in Outcomes,
        exif \in ExifChoices,
        save \in Outcomes }

ThumbSizes == {PyNone} \cup {PyInt(n) : n \in 0..1}

\* the name of the i-th file of a list
NameOf(i) == "f" \o IntStr(i)

\* lists of at most MaxLen elements of S
ListsOf(S) == UNION {[1..n -> S] : n \in 0..MaxLen}

\* a plain file of the given size (not an image)
PlainFile(i, size) ==
    File(<<NameOf(i)>>, "ok", size, "IOError", <<1, 1>>, FALSE, "ok",
         [k \in {37510} |-> PyStr("c")], "ok")

\* the kinds of file the sorter is tried on: not an image, an image without
\* EXIF data, an image with one of two capture dates; each of two sizes
SortKinds == {"plain", "noexif", "date1", "date2"} \X (1..2)

SortFile(i, kind) ==
    File(<<NameOf(i)>>, "ok", kind[2],
         IF kind[1] = "plain" THEN "IOError" ELSE "ok",
         <<3 - kind[2], kind[2]>>,
         kind[1] \in {"date1", "date2"}, "ok",
         [k \in {36867} |-> DateStr[IF kind[1] = "date1" THEN 1 ELSE 2]], "ok")

OrderedBys == {<<"image", "date">>, <<"file", "size">>, <<"image", "size">>}

Titles == {"T", "batch mailer"}

\* the sizes, in MiB, of the files of the end-to-end specification
E2ESizes == {3, 4, 5, 11}

-----------------------------------------------------------------------------
(* Initial states *)

MetaIdle ==
    /\ have_magic = TRUE /\ have_PIL = TRUE
    /\ file = PlainFile(1, 0) /\ thumbnail_size = PyInt(80) /\ meta = PyNone

SortIdle == ordered_by = <<>> /\ reverse = FALSE /\ sorted = <<>>

GroupIdle ==
    /\ max_size = 0 /\ grps = <<>> /\ idx = 0 /\ groups = <<>> /\ total_size = 0
    /\ title = "" /\ total = 0 /\ gi = 0 /\ progress_tup = <<0, 0>> /\ subjects = <<>>

\* get_meta_data is about to be called on one file
InitMeta ==
    /\ pc = "file"
    /\ have_magic \in BOOLEAN /\ have_PIL \in BOOLEAN
    /\ file \in MetaFiles /\ thumbnail_size \in ThumbSizes
    /\ meta = PyNone /\ exc = NoExc /\ metas = <<>>
    /\ SortIdle /\ GroupIdle

\* files2meta_data_list has returned the records of a list of files
InitSort ==
    /\ pc = "metas" /\ exc = NoExc
    /\ MetaIdle /\ SortIdle /\ GroupIdle
    /\ \E ks \in ListsOf(SortKinds) :
          metas = files2meta_data_list([i \in 1..Len(ks) |-> SortFile(i, ks[i])],
                                       PyInt(80), TRUE, TRUE)

InitGroup ==
    /\ pc = "metas" /\ exc = NoExc
    /\ MetaIdle /\ SortIdle /\ GroupIdle
    /\ \E szs \in ListsOf(0..MaxFileSize) :
          metas = files2meta_data_list([i \in 1..Len(szs) |-> PlainFile(i, szs[i])],
                                       PyInt(80), TRUE, TRUE)

InitMiB ==
    /\ pc = "metas" /\ exc = NoExc
    /\ MetaIdle /\ SortIdle /\ GroupIdle
    /\ \E szs \in ListsOf(E2ESizes) :
          metas = files2meta_data_list([i \in 1..Len(szs) |-> PlainFile(i, szs[i] * MiB)],
                                       PyInt(80), TRUE, TRUE)

-----------------------------------------------------------------------------
(* Actions *)

metaVars == <<have_magic, have_PIL, file, thumbnail_size, meta>>
sortVars == <<ordered_by, reverse, sorted>>
groupVars == <<max_size, grps, idx, groups, total_size>>
subjectVars == <<title, total, gi, progress_tup, subjects>>

\* get_meta_data(file_name, thumbnail_size), lines 263-342
GetMetaData ==
    /\ pc = "file"
    /\ LET r == get_meta_data(file, thumbnail_size, have_magic, have_PIL)
       IN  /\ meta' = r.meta
           /\ exc' = IF r.exc = "" THEN NoExc ELSE [type |-> r.exc, args |-> <<>>]
           /\ pc' = IF r.exc = "" THEN "meta_returned" ELSE "meta_raised"
    /\ UNCHANGED <<have_magic, have_PIL, file, thumbnail_size, metas>>
    /\ UNCHANGED <<sortVars, groupVars, subjectVars>>

\* sort_meta_data_list(metas, ordered_by, reverse), lines 347-376
SortCall(path, rev) ==
    /\ pc = "metas"
    /\ ordered_by' = path /\ reverse' = rev
    /\ sorted' = sort_meta_data_list(metas, path, rev)
    /\ pc' = "sorted"
    /\ UNCHANGED <<metaVars, exc, metas, groupVars, subjectVars>>

\* meta_data2groups(metas, max_size) is entered, lines 385-386
GroupBegin(m) ==
    /\ pc = "metas"
    /\ max_size' = m
    /\ groups' = InitGroups
    /\ total_size' = 0
    /\ idx' = 0
    /\ pc' = "group"
    /\ UNCHANGED <<metaVars, exc, metas, sortVars, grps, subjectVars>>

\* the for loop meets a record larger than max_size, lines 388-390
GroupRaise ==
    /\ pc = "group" /\ idx < Len(metas)
    /\ LET x == metas[idx + 1]
       IN  /\ TooBig(FileSize(x), max_size)
           /\ exc' = TooBigError(x, max_size)
    /\ pc' = "group_raised"
    /\ UNCHANGED <<metaVars, metas, sortVars, groupVars, subjectVars>>

\* the for loop appends the record to the last group, lines 392-395
GroupAppend ==
    /\ pc = "group" /\ idx < Len(metas)
    /\ LET x == metas[idx + 1]
       IN  /\ ~TooBig(FileSize(x), max_size)
           /\ Fits(FileSize(x), total_size, max_size)
           /\ groups' = AppendToLast(groups, x)
           /\ total_size' = total_size + FileSize(x)
    /\ idx' = idx + 1
    /\ UNCHANGED <<pc, metaVars, exc, metas, sortVars, max_size, grps, subjectVars>>

\* the for loop starts a new group with the record, lines 396-399
GroupNew ==
    /\ pc = "group" /\ idx < Len(metas)
    /\ LET x == metas[idx + 1]
       IN  /\ ~TooBig(FileSize(x), max_size)
           /\ ~Fits(FileSize(x), total_size, max_size)
           /\ groups' = NewGroup(groups, x)
           /\ total_size' = FileSize(x)
    /\ idx' = idx + 1
    /\ UNCHANGED <<pc, metaVars, exc, metas, sortVars, max_size, grps, subjectVars>>

\* the for loop is over: return groups, line 400
GroupReturn ==
    /\ pc = "group" /\ idx = Len(metas)
    /\ grps' = <<groups>>
    /\ pc' = "grouped"
    /\ UNCHANGED <<metaVars, exc, metas, sortVars, max_size, idx, groups,
                   total_size, subjectVars>>

\* groups2subjects(grps, title) is entered, lines 578-581
SubjectsBegin(t) ==
    /\ pc = "grouped"
    /\ title' = t
    /\ total' = TotalLen(grps[1])
    /\ subjects' = <<>>
    /\ progress_tup' = <<0, 0>>
    /\ gi' = 0
    /\ pc' = "subjects"
    /\ UNCHANGED <<metaVars, exc, metas, sortVars, groupVars>>

\* one turn of the for loop over the groups, lines 582-587
SubjectStep ==
    /\ pc = "subjects" /\ gi < Len(grps[1])
    /\ LET grp == grps[1][gi + 1]
           tup == NextProgress(progress_tup, Len(grp))
       IN  /\ progress_tup' = tup
           /\ subjects' = Append(subjects,
                 subject_fmt(title, gi + 1, tup, total, sizeof_fmt(att_size(grp))))
    /\ gi' = gi + 1
    /\ UNCHANGED <<pc, metaVars, exc, metas, sortVars, groupVars, title, total>>

\* return subjects, line 589
SubjectsReturn ==
    /\ pc = "subjects" /\ gi = Len(grps[1])
    /\ pc' = "done"
    /\ UNCHANGED <<metaVars, exc, metas, sortVars, groupVars, subjectVars>>

-----------------------------------------------------------------------------
(* Specifications *)

GroupSteps ==
    \/ GroupRaise \/ GroupAppend \/ GroupNew \/ GroupReturn
    \/ SubjectStep \/ SubjectsReturn

\* grouping and subjects, sizes in bytes
Next ==
    \/ \E m \in 0..MaxMaxSize : GroupBegin(m)
    \/ GroupSteps
    \/ \E t \in Titles : SubjectsBegin(t)

Spec == InitGroup /\ [][Next]_vars

\* the end-to-end run at the scale of the documented usage (max_size of 10 MiB)
NextMiB ==
    \/ GroupBegin(10 * MiB)
    \/ GroupSteps
    \/ SubjectsBegin("T")

SpecMiB == InitMiB /\ [][NextMiB]_vars

NextSort == \E path \in OrderedBys, rev \in BOOLEAN : SortCall(path, rev)

SpecSort == InitSort /\ [][NextSort]_vars

NextMeta == GetMetaData

SpecMeta == InitMeta /\ [][NextMeta]_vars

-----------------------------------------------------------------------------
(* Properties of meta_data2groups *)

\* meta_data2groups has returned (the caller holds its result)
GroupsReturned == grps # <<>>
\* the call of meta_data2groups is over, by return or by exception
GroupCallOver == pc \notin {"metas", "group"}

Sizes(ms) == [i \in 1..Len(ms) |-> FileSize(ms[i])]
Oversize == {i \in 1..Len(metas) : FileSize(metas[i]) > max_size}
FirstOversize == CHOOSE i \in Oversize : \A j \in Oversize : i <= j

\* C1: when every record is at most max_size (max_size positive), every
\* returned group has a sum of file sizes strictly below max_size.
C1_GroupTotalBelowMax ==
    (GroupsReturned /\ max_size > 0 /\ Oversize = {}) =>
        \A g \in 1..Len(grps[1]) : SumSeq(Sizes(grps[1][g])) < max_size

\* C2: the returned groups, concatenated in order, are exactly the input
\* list: nothing dropped, duplicated or reordered.
C2_GroupsCoverInput == GroupsReturned => Flatten(grps[1]) = metas

C2_Witness ==
    /\ pc = "grouped" /\ Len(metas) = MaxLen
    /\ Len(grps[1]) >= 2 /\ \E g \in 1..Len(grps[1]) : Len(grps[1][g]) >= 2

\* C3: when some record is larger than max_size the call ends with the
\* exception that names the first such record, its size and max_size, and
\* nothing is returned.
C3_OversizeAborts ==
    (GroupCallOver /\ Oversize # {}) =>
        /\ pc = "group_raised"
        /\ grps = <<>>
        /\ exc = [type |-> "Exception",
                  args |-> <<NameOf(FirstOversize),
                             FileSize(metas[FirstOversize]), max_size>>]

C3_Witness ==
    /\ pc = "group_raised" /\ FirstOversize = Len(metas) /\ Len(metas) >= 2
    /\ Len(groups) >= 2

\* C4: an empty input returns exactly one group, which is empty, and every
\* returned result holds at least one group.
C4_AtLeastOneGroup ==
    GroupsReturned =>
        /\ Len(grps[1]) >= 1
        /\ (metas = <<>> => grps[1] = <<<<>>>>)

C4_Witness == pc = "grouped" /\ metas = <<>> /\ Len(grps[1]) = 1

\* C10: each turn of the loop appends the record to the current group
\* exactly when running total + size < max_size and otherwise starts a new
\* group whose running total is the record's size; so in the result the sum
\* of a group plus the first record of the next group is at least max_size.
C10_GreedyStep ==
    (pc = "group" /\ idx' = idx + 1) =>
        LET x == metas[idx']
            n == Len(groups)
        IN  IF total_size + FileSize(x) < max_size
            THEN /\ Len(groups') = n
                 /\ groups'[n] = Append(groups[n], x)
                 /\ \A g \in 1..(n - 1) : groups'[g] = groups[g]
                 /\ total_size' = total_size + FileSize(x)
            ELSE /\ Len(groups') = n + 1
                 /\ groups'[n + 1] = <<x>>
                 /\ \A g \in 1..n : groups'[g] = groups[g]
                 /\ total_size' = FileSize(x)

C10_ConsecutiveGroups ==
    GroupsReturned =>
        \A g \in 1..(Len(grps[1]) - 1) :
            SumSeq(Sizes(grps[1][g])) + FileSize(grps[1][g + 1][1]) >= max_size

C10_Greedy == [][C10_GreedyStep]_vars /\ []C10_ConsecutiveGroups

C10_Witness ==
    /\ pc = "grouped" /\ Len(grps[1]) = 2
    /\ Len(grps[1][1]) = 2 /\ Len(grps[1][2]) = 1
    /\ SumSeq(Sizes(grps[1][1])) + FileSize(grps[1][2][1]) = max_size

\* C11: in a result with max_size > 0 only the first group can be empty:
\* every later group holds a record, and the first group is empty only when
\* the input is empty or the first record's size equals max_size.
C11_OnlyFirstGroupEmpty ==
    (GroupsReturned /\ max_size > 0) =>
        /\ \A g \in 2..Len(grps[1]) : grps[1][g] # <<>>
        /\ (grps[1][1] = <<>> =>
              (metas = <<>> \/ FileSize(metas[1]) = max_size))

C11_Witness ==
    /\ pc = "grouped" /\ max_size > 0 /\ Len(metas) = MaxLen
    /\ grps[1][1] = <<>> /\ Len(grps[1]) >= 3
    /\ FileSize(metas[1]) = max_size

-----------------------------------------------------------------------------
(* Properties of groups2subjects *)

\* the number of records in the first n groups
CountThrough(gs, n) == Len(Flatten(SubSeq(gs, 1, n)))

\* the subject of group i: range start 1 + records before it, end = records
\* through it, num i, total = all records
ExpectedSubject(gs, ttl, i) ==
    subject_fmt(ttl, i, <<1 + CountThrough(gs, i - 1), CountThrough(gs, i)>>,
                CountThrough(gs, Len(gs)), sizeof_fmt(SumSeq(Sizes(gs[i]))))

\* C7: one subject per group in group order; group i's range runs from
\* 1 + (records in the groups before it) to (records through it), never
\* reset; num is i; total is the number of all records, which the last
\* group's end equals.
C7_SubjectProgress ==
    (pc \in {"subjects", "done"}) =>
        /\ Len(subjects) = gi
        /\ \A i \in 1..gi : subjects[i] = ExpectedSubject(grps[1], title, i)
        /\ progress_tup[2] = CountThrough(grps[1], gi)
        /\ (pc = "done" =>
              /\ gi = Len(grps[1])
              /\ progress_tup[2] = total
              /\ total = Len(metas))

C7_Witness ==
    /\ pc = "done" /\ Len(grps[1]) >= 2
    /\ Len(grps[1][1]) >= 2 /\ Len(grps[1][2]) >= 1

\* C9: files of 4 MiB, 3 MiB and 5 MiB, in that order, with max_size 10 MiB
\* and no ordering key give the groups [4 MiB, 3 MiB] and [5 MiB] and, with
\* title "T", the subjects "T #1 (1-2/3) 7.0MiB" and "T #2 (3-3/3) 5.0MiB".
C9_Input ==
    /\ Sizes(metas) = <<4 * MiB, 3 * MiB, 5 * MiB>>
    /\ max_size = 10 * MiB /\ title = "T"

C9_EndToEnd ==
    (pc = "done" /\ C9_Input) =>
        /\ grps[1] = <<<<metas[1], metas[2]>>, <<metas[3]>>>>
        /\ subjects = <<"T #1 (1-2/3) 7.0MiB", "T #2 (3-3/3) 5.0MiB">>

C9_Witness == pc = "done" /\ C9_Input /\ Len(subjects) = 2

-----------------------------------------------------------------------------
(* Properties of sort_meta_data_list *)

\* the record has a value at every segment of the dotted path
RECURSIVE HasPath(_, _)
HasPath(x, path) ==
    \/ path = <<>>
    \/ Has(x, Head(path)) /\ HasPath(Get(x, Head(path)), Tail(path))

\* the value at the path, for a record that has it
RECURSIVE KeyAt(_, _)
KeyAt(x, path) == IF path = <<>> THEN x ELSE KeyAt(Get(x, Head(path)), Tail(path))

\* where record r stands in list s
PosIn(s, r) == CHOOSE k \in 1..Len(s) : s[k] = r

EqualKeys(a, b, path) ==
    HasPath(a, path) /\ HasPath(b, path) /\ KeyAt(a, path) = KeyAt(b, path)

\* C5: the result is a permutation of the input, and two records that both
\* have a key at the ordered_by path, the keys being equal, stand in the
\* result in their input order (ascending or reversed).
C5_SortStable ==
    pc = "sorted" =>
        /\ Len(sorted) = Len(metas)
        /\ \A i \in 1..Len(metas) :
              Cardinality({k \in 1..Len(sorted) : sorted[k] = metas[i]}) = 1
        /\ \A i, j \in 1..Len(metas) :
              (i < j /\ EqualKeys(metas[i], metas[j], ordered_by)) =>
                  PosIn(sorted, metas[i]) < PosIn(sorted, metas[j])

C5_Witness ==
    /\ pc = "sorted" /\ reverse /\ ordered_by = <<"image", "date">>
    /\ sorted # metas
    /\ \E i, j, k \in 1..Len(metas) :
          /\ i < k /\ k < j
          /\ EqualKeys(metas[i], metas[j], ordered_by)
          /\ ~HasPath(metas[k], ordered_by)

\* C6: in an ascending sort every record that lacks the ordered_by path, at
\* whichever segment, stands before every record that has it, and the call
\* returns without an exception.
C6_MissingFirst ==
    (pc = "sorted" /\ ~reverse) =>
        /\ exc = NoExc
        /\ \A i, j \in 1..Len(sorted) :
              (~HasPath(sorted[i], ordered_by) /\ HasPath(sorted[j], ordered_by))
                  => i < j

C6_Witness ==
    /\ pc = "sorted" /\ ~reverse /\ Len(metas) = MaxLen
    /\ HasPath(metas[1], ordered_by)
    /\ ~Has(metas[2], "image")
    /\ Has(metas[3], "image") /\ ~HasPath(metas[3], ordered_by)

-----------------------------------------------------------------------------
(* Properties of get_meta_data *)

\* the image codec is available and PIL.Image.open decoded the file
Decoded == have_PIL /\ file.open = "ok"

\* C8: in every returned record, image is present iff decoding succeeded and
\* image.thumbnail is present iff decoding succeeded and thumbnail_size > 0.
C8_ImageAndThumbnail ==
    pc = "meta_returned" =>
        /\ Has(meta, "image") <=> Decoded
        /\ (Has(meta, "image") /\ Has(Get(meta, "image"), "thumbnail"))
              <=> (Decoded /\ thumbnail_size.t = "int" /\ thumbnail_size.v > 0)

-----------------------------------------------------------------------------
(* Properties of key_cmp *)

\* two results of a three-way comparison, taken in the two orders, agree:
\* both 0, or of opposite sign
Opposite(c, d) == (c = 0 /\ d = 0) \/ (c < 0 /\ d > 0) \/ (c > 0 /\ d < 0)

\* C12: for every pair of (distinct) records and every ordered_by path key_cmp(a, b) and
\* key_cmp(b, a) are both 0 or of opposite sign, also when both records lack
\* the path: two such records compare as equal and keep their input order.
C12_ComparatorConsistent ==
    pc = "sorted" =>
        \A i, j \in 1..Len(metas) :
            /\ i # j => Opposite(key_cmp(metas[i], metas[j], ordered_by),
                                 key_cmp(metas[j], metas[i], ordered_by))
            /\ (i < j /\ ~HasPath(metas[i], ordered_by)
                      /\ ~HasPath(metas[j], ordered_by)) =>
                  /\ key_cmp(metas[i], metas[j], ordered_by) = 0
                  /\ PosIn(sorted, metas[i]) < PosIn(sorted, metas[j])

=============================================================================
